---------------------------- MODULE Spec2Model ----------------------------
(***************************************************************************)
(* Dunner task-manifest loader (pkg/config/config.go): environment         *)
(* resolution, directive interpolation, mount validation and decoding,     *)
(* task-file discovery, validation error collection and GetConfigs.        *)
(*                                                                         *)
(* A Go string is modelled as a sequence of one-character strings, so      *)
(* that splitting, trimming, matching and replacing are computed the way   *)
(* the strings/regexp packages compute them.                               *)
(***************************************************************************)
EXTENDS Naturals, Integers, Sequences, FiniteSets, TLC

VARIABLES
    hostEnv,    \* os environment: name -> value (os.LookupEnv)
    dotEnv,     \* package variable dotEnv: name -> value (nil = empty map)
    envVar,     \* argument of the obtainEnv call
    envRes,     \* what obtainEnv returned
    dirIn,      \* argument of the lookupDirectory call
    dirRes,     \* what lookupDirectory returned
    step,       \* the Step ParseStepEnv is called on (mutated in place)
    stepIn,     \* the Step as it was before ParseStepEnv
    stepRes,    \* what ParseStepEnv returned
    mounts,     \* Step.Mounts given to the validator and to DecodeMount
    fsDirs,     \* directories that exist on the filesystem (util.DirExists)
    mountOK,    \* per mount: outcome of the mountdir and parsedir rules
    ExtMounts,  \* docker.Step.ExtMounts
    decodeRes,  \* what DecodeMount returned (or that it panicked)
    valIn,      \* the Configs Validate is called on
    errs,       \* what Validate returned
    filename,   \* argument of GetConfigs
    wd,         \* working directory (os.Getwd), or that Getwd fails
    files,      \* paths of the files that exist (util.FileExists)
    manifest,   \* what the task file holds: a manifest, or malformed text
    dotenvFile, \* the dotenv file: whether it exists, and its assignments
    dir,        \* getDunnerTaskFile: loop variable dir
    visited,    \* directories getDunnerTaskFile has checked, in order
    taskFile,   \* getDunnerTaskFile: returned path
    pc,         \* GetConfigs: position
    trace,      \* GetConfigs: the stages run so far, in order
    configs,    \* GetConfigs: local variable configs
    result      \* what GetConfigs returned

envVarsT  == <<hostEnv, dotEnv>>
oeVars    == <<envVar, envRes>>
dirVars   == <<dirIn, dirRes, step, stepIn, stepRes>>
mntVars   == <<mounts, fsDirs, mountOK, ExtMounts, decodeRes>>
valVars   == <<valIn, errs>>
loadVars  == <<filename, wd, files, manifest, dotenvFile, dir, visited, taskFile, pc, trace, configs, result>>
vars      == <<hostEnv, dotEnv, envVar, envRes, dirIn, dirRes, step, stepIn, stepRes,
               mounts, fsDirs, mountOK, ExtMounts, decodeRes, valIn, errs,
               filename, wd, files, manifest, dotenvFile, dir, visited, taskFile, pc,
               trace, configs, result>>

---------------------------------------------------------------------------
(* Characters and strings *)

\* the backtick character (a one-character string everywhere but here: the
\* lexer accepts no backtick inside a string literal)
BT == "BACKTICK"
DL == "$"
EQ == "="
CL == ":"

RECURSIVE Cat(_)
\* concatenation of a sequence of strings
Cat(ss) == IF ss = <<>> THEN <<>> ELSE Head(ss) \o Cat(Tail(ss))

\* the strings made of at most n tokens of toks
RECURSIVE TokenStrings(_, _)
TokenStrings(toks, n) ==
    IF n = 0 THEN {<<>>}
    ELSE LET shorter == TokenStrings(toks, n - 1)
         IN  shorter \cup {t \o s : t \in toks, s \in shorter}

HasPrefix(s, p) == Len(s) >= Len(p) /\ SubSeq(s, 1, Len(p)) = p

Drop(s, n) == SubSeq(s, n + 1, Len(s))

Last(s) == s[Len(s)]

\* number of occurrences of character c in s
RECURSIVE Count(_, _)
Count(s, c) ==
    IF s = <<>> THEN 0 ELSE (IF Head(s) = c THEN 1 ELSE 0) + Count(Tail(s), c)

\* index of the first c in s at or after position i, 0 if there is none
RECURSIVE IndexFrom(_, _, _)
IndexFrom(s, c, i) ==
    IF i > Len(s) THEN 0
    ELSE IF s[i] = c THEN i
    ELSE IndexFrom(s, c, i + 1)

\* strings.Split(s, sep) for a one-character separator: always >= 1 element
RECURSIVE Split(_, _)
Split(s, sep) ==
    LET i == IndexFrom(s, sep, 1)
    IN  IF i = 0 THEN <<s>>
        ELSE <<SubSeq(s, 1, i - 1)>> \o Split(Drop(s, i), sep)

\* strings.FieldsFunc(s, c == sep): the maximal runs of non-separators;
\* empty fields are dropped
FieldsFunc(s, sep) == SelectSeq(Split(s, sep), LAMBDA f : f # <<>>)

\* strings.Replace(s, old, new, n) for non-empty old; n < 0 replaces all
RECURSIVE Replace(_, _, _, _)
Replace(s, old, new, n) ==
    IF n = 0 \/ Len(s) < Len(old) THEN s
    ELSE IF HasPrefix(s, old)
         THEN new \o Replace(Drop(s, Len(old)), old, new, n - 1)
         ELSE <<Head(s)>> \o Replace(Tail(s), old, new, n)

\* strings.Trim(s, cutset) for a one-character cutset
RECURSIVE TrimLeft(_, _)
TrimLeft(s, c) == IF s # <<>> /\ Head(s) = c THEN TrimLeft(Tail(s), c) ELSE s

RECURSIVE TrimRight(_, _)
TrimRight(s, c) ==
    IF s # <<>> /\ Last(s) = c THEN TrimRight(SubSeq(s, 1, Len(s) - 1), c) ELSE s

Trim(s, c) == TrimRight(TrimLeft(s, c), c)

\* strings.TrimSpace over the blank
TrimSpace(s) == Trim(s, " ")

---------------------------------------------------------------------------
(* Environment sources *)

\* the maps from a subset of names to values
Maps(names, values) == UNION {[D -> values] : D \in SUBSET names}

NilMap == [k \in {} |-> <<>>]

\* the zero values of Step and Configs
EmptyStep == [Image |-> <<>>, Envs |-> <<>>, Dir |-> <<>>, Mounts |-> <<>>,
              User |-> <<>>, Follow |-> <<>>]

EmptyConfigs == [Envs |-> <<>>, Tasks |-> NilMap]

\* a call that the specification at hand does not make
IdleRes == [st |-> "idle", out |-> <<>>, key |-> <<>>]

\* lines 358-363 and 439-445: val starts "", the host value is taken when
\* set, and the dotenv value overwrites it when set
LookupVal(key) ==
    LET hostVal == IF key \in DOMAIN hostEnv THEN hostEnv[key] ELSE <<>>
    IN  IF key \in DOMAIN dotEnv THEN dotEnv[key] ELSE hostVal

---------------------------------------------------------------------------
(* obtainEnv *)

NoRes == [st |-> "none", out |-> <<>>, key |-> <<>>]

\* regexp.MatchString("^`\\$.+`$", v): a backtick, a dollar, one or more
\* characters of any kind, a closing backtick at the end
MatchEnvPattern(v) ==
    Len(v) >= 4 /\ v[1] = BT /\ v[2] = DL /\ Last(v) = BT

\* lines 344-354: every backtick removed, then the first dollar removed
EnvKey(v) == Replace(Replace(v, <<BT>>, <<>>, -1), <<DL>>, <<>>, 1)

obtainEnv(e) ==
    LET str == Split(e, EQ)
    IN  IF Len(str) # 2
        THEN [st |-> "invalid_format", out |-> <<>>, key |-> e]
        ELSE IF MatchEnvPattern(str[2])
             THEN LET key == EnvKey(str[2])
                      val == LookupVal(key)
                  IN  IF val = <<>>
                      THEN [st |-> "not_found", out |-> <<>>, key |-> key]
                      ELSE [st |-> "ok", out |-> str[1] \o <<EQ>> \o val, key |-> key]
             ELSE [st |-> "ok", out |-> e, key |-> <<>>]

\* obtainEnv is called once on envVar
ObtainEnvCall ==
    /\ envRes.st = "none"
    /\ envRes' = obtainEnv(envVar)
    /\ UNCHANGED <<hostEnv, dotEnv, envVar, dirVars, mntVars, valVars, loadVars>>

---------------------------------------------------------------------------
(* lookupDirectory and ParseStepEnv *)

\* fmt.Sprintf("`$%s`", name)
Directive(name) == <<BT, DL>> \o name \o <<BT>>

\* hostDirRegex.FindAllStringSubmatch(s, -1), the name group of each match:
\* leftmost non-overlapping matches of a backtick, a dollar, one or more
\* non-backtick characters and a backtick, scanning from position i
RECURSIVE FindDirectives(_, _)
FindDirectives(s, i) ==
    IF i + 3 > Len(s) THEN <<>>
    ELSE IF s[i] = BT /\ s[i + 1] = DL
         THEN LET j == IndexFrom(s, BT, i + 2)
              IN  IF j >= i + 3
                  THEN <<SubSeq(s, i + 2, j - 1)>> \o FindDirectives(s, j + 1)
                  ELSE FindDirectives(s, i + 1)
         ELSE FindDirectives(s, i + 1)

\* LookupLoop handing back, on a name without a value, the string as
\* substituted so far instead of dir
RECURSIVE LookupLoopPartial(_, _, _)
LookupLoopPartial(matches, parsedDir, d) ==
    IF matches = <<>> THEN [st |-> "ok", out |-> parsedDir, key |-> <<>>]
    ELSE LET envKey == Head(matches)
             val    == LookupVal(envKey)
         IN  IF val = <<>>
             THEN [st |-> "not_found", out |-> parsedDir, key |-> envKey]
             ELSE LookupLoopPartial(Tail(matches),
                                    Replace(parsedDir, Directive(envKey), val, -1), d)

\* lines 437-450: the loop over the matches; parsedDir accumulates the
\* replacements, and the first name without a value returns dir itself
RECURSIVE LookupLoop(_, _, _)
LookupLoop(matches, parsedDir, d) ==
    IF matches = <<>> THEN [st |-> "ok", out |-> parsedDir, key |-> <<>>]
    ELSE LET envKey == Head(matches)
             val    == LookupVal(envKey)
         IN  IF val = <<>>
             THEN [st |-> "not_found", out |-> d, key |-> envKey]
             ELSE LookupLoop(Tail(matches),
                             Replace(parsedDir, Directive(envKey), val, -1), d)

lookupDirectory(d) == LookupLoop(FindDirectives(d, 1), d, d)

\* lines 385-391: the loop over step.Mounts from index i on
RECURSIVE ParseMounts(_, _)
ParseMounts(ms, i) ==
    IF i > Len(ms) THEN [mounts |-> ms, st |-> "ok", key |-> <<>>]
    ELSE LET r == lookupDirectory(ms[i])
         IN  IF r.st # "ok"
             THEN [mounts |-> ms, st |-> r.st, key |-> r.key]
             ELSE ParseMounts([ms EXCEPT ![i] = r.out], i + 1)

\* (step *Step).ParseStepEnv: the step as it is left, and the error
ParseStepEnv(s) ==
    LET d == lookupDirectory(s.Dir)
    IN  IF d.st # "ok" THEN [step |-> s, st |-> d.st, key |-> d.key]
        ELSE
        LET s1 == [s EXCEPT !.Dir = d.out]
            m  == ParseMounts(s1.Mounts, 1)
            s2 == [s1 EXCEPT !.Mounts = m.mounts]
        IN  IF m.st # "ok" THEN [step |-> s2, st |-> m.st, key |-> m.key]
            ELSE
            LET u == lookupDirectory(s2.User)
            IN  IF u.st # "ok" THEN [step |-> s2, st |-> u.st, key |-> u.key]
                ELSE [step |-> [s2 EXCEPT !.User = u.out], st |-> "ok", key |-> <<>>]

LookupDirectoryCall ==
    /\ dirRes.st = "none"
    /\ dirRes' = lookupDirectory(dirIn)
    /\ UNCHANGED <<hostEnv, dotEnv, oeVars, dirIn, step, stepIn, stepRes,
                   mntVars, valVars, loadVars>>

ParseStepEnvCall ==
    /\ stepRes.st = "none"
    /\ LET r == ParseStepEnv(step)
       IN  /\ step' = r.step
           /\ stepRes' = [st |-> r.st, out |-> <<>>, key |-> r.key]
    /\ UNCHANGED <<hostEnv, dotEnv, oeVars, dirIn, dirRes, stepIn,
                   mntVars, valVars, loadVars>>

---------------------------------------------------------------------------
(* Mount strings: the mountdir and parsedir rules, DecodeMount *)

defaultPermissionMode == <<"r">>

validDirPermissionModes == <<defaultPermissionMode, <<"w", "r">>, <<"r", "w">>, <<"w">>>>

\* ValidateMountDir requiring three fields, without the default mode
ValidateMountDirNoDefault(value) ==
    LET mountValues == FieldsFunc(value, CL)
    IN  IF Len(mountValues) # 3 THEN FALSE
        ELSE \E i \in DOMAIN validDirPermissionModes :
                 Last(mountValues) = validDirPermissionModes[i]

\* ValidateMountDir: the fields between colons; the default mode is
\* appended when there are not 3 of them; then there must be 3 and the last
\* must be a valid mode
ValidateMountDir(value) ==
    LET fields      == FieldsFunc(value, CL)
        mountValues == IF Len(fields) # 3
                       THEN Append(fields, defaultPermissionMode) ELSE fields
    IN  IF Len(mountValues) # 3 THEN FALSE
        ELSE \E i \in DOMAIN validDirPermissionModes :
                 Last(mountValues) = validDirPermissionModes[i]

\* util.DirExists: the directory is on the filesystem
DirExists(p) == p \in fsDirs

\* ParseMountDir: the first field, interpolated, must be an existing
\* directory
ParseMountDir(value) ==
    LET mountValues == FieldsFunc(value, CL)
    IN  IF Len(mountValues) = 0 THEN FALSE
        ELSE LET r == lookupDirectory(mountValues[1])
             IN  IF r.st # "ok" THEN FALSE ELSE DirExists(r.out)

\* util.HomeDir and the working directory of the process
HomeDir == <<"/", "h">>
WorkDir == <<"/", "c">>

\* path.Join(HomeDir, rest) and filepath.Join(wd, rest) for a rest without
\* separators or dots: an empty element is ignored
JoinPath(base, rest) == IF rest = <<>> THEN base ELSE base \o <<"/">> \o rest

\* joinPathRelToHome for a non-empty p (p[0] of an empty p panics: see
\* DecodeOne)
joinPathRelToHome(p) ==
    IF p[1] = "~" THEN JoinPath(HomeDir, Trim(p, "~")) ELSE p

\* filepath.Abs: an absolute path is kept, a relative one is joined to the
\* working directory, which needs os.Getwd to succeed
Abs(p, getwdOK) ==
    IF p # <<>> /\ p[1] = "/" THEN [ok |-> TRUE, path |-> p]
    ELSE IF getwdOK THEN [ok |-> TRUE, path |-> JoinPath(WorkDir, p)]
    ELSE [ok |-> FALSE, path |-> <<>>]

\* lines 407-427, one iteration: the outcome and the descriptor
DecodeOne(m, getwdOK) ==
    LET arr      == Split(Trim(Trim(m, "'"), "\""), CL)
        readOnly == ~(Len(arr) = 3 /\ (arr[3] = <<"w", "r">> \/ arr[3] = <<"w">>))
    IN  IF arr[1] = <<>> THEN [st |-> "panic", mnt |-> <<>>]      \* p[0]
        ELSE LET src == Abs(joinPathRelToHome(arr[1]), getwdOK)
             IN  IF ~src.ok THEN [st |-> "abs_error", mnt |-> <<>>]
                 ELSE IF Len(arr) < 2 THEN [st |-> "panic", mnt |-> <<>>]   \* arr[1]
                 ELSE [st |-> "ok",
                       mnt |-> [Type |-> "bind", Source |-> src.path,
                                Target |-> arr[2], ReadOnly |-> readOnly]]

\* DecodeMount: the loop over mounts, appending to ext; it stops at the
\* first error or panic with what was appended so far
RECURSIVE DecodeMount(_, _, _)
DecodeMount(ms, ext, getwdOK) ==
    IF ms = <<>> THEN [st |-> "ok", ext |-> ext]
    ELSE LET r == DecodeOne(Head(ms), getwdOK)
         IN  IF r.st # "ok" THEN [st |-> r.st, ext |-> ext]
             ELSE DecodeMount(Tail(ms), Append(ext, r.mnt), getwdOK)

\* the validator runs the mountdir and parsedir rules on every mount
ValidateMountsCall ==
    /\ mountOK.st = "none"
    /\ mountOK' = [st |-> "done",
                   rules |-> [i \in DOMAIN mounts |->
                                 [mountdir |-> ValidateMountDir(mounts[i]),
                                  parsedir |-> ParseMountDir(mounts[i])]]]
    /\ UNCHANGED <<hostEnv, dotEnv, oeVars, dirVars, mounts, fsDirs, ExtMounts,
                   decodeRes, valVars, loadVars>>

DecodeMountCall ==
    /\ decodeRes = "none"
    /\ \E getwdOK \in BOOLEAN :
           LET r == DecodeMount(mounts, ExtMounts, getwdOK)
           IN  /\ ExtMounts' = r.ext
               /\ decodeRes' = r.st
    /\ UNCHANGED <<hostEnv, dotEnv, oeVars, dirVars, mounts, fsDirs, mountOK,
                   valVars, loadVars>>

---------------------------------------------------------------------------
(* Validate *)

\* the orders in which a range over a map with the keys S may run
Orders(S) == {f \in [1..Cardinality(S) -> S] : \A i, j \in DOMAIN f : i # j => f[i] # f[j]}

customValidationTags == <<"mountdir", "follow_exist", "parsedir", "required_without">>

\* initValidator: registering a validation fails on an empty tag only, and
\* the "en" translator is always found
initValidator(tags) == IF \E i \in DOMAIN tags : tags[i] = "" THEN "error" ELSE "ok"

\* ValidateFollowTaskPresent: the trimmed value is the name of a task
ValidateFollowTaskPresent(cfg, value) ==
    LET followTask == TrimSpace(value)
    IN  \E taskName \in DOMAIN cfg.Tasks : taskName = followTask

\* the rules of one mount entry, in tag order: mountdir, then parsedir
MountErrors(m) ==
    IF ~ValidateMountDir(m) THEN <<[tag |-> "mountdir", value |-> m]>>
    ELSE IF ~ParseMountDir(m) THEN <<[tag |-> "parsedir", value |-> m]>>
    ELSE <<>>

\* govalidator.VarCtx(ctx, step, "dive"): the failed rules of one step, in
\* field order: image (required_without=Follow), each mount, follow
StepErrors(cfg, st) ==
    (IF st.Image = <<>> /\ st.Follow = <<>>
     THEN <<[tag |-> "required_without", value |-> <<>>]>> ELSE <<>>)
    \o Cat([i \in DOMAIN st.Mounts |-> MountErrors(st.Mounts[i])])
    \o (IF st.Follow # <<>> /\ ~ValidateFollowTaskPresent(cfg, st.Follow)
        THEN <<[tag |-> "follow_exist", value |-> st.Follow]>> ELSE <<>>)

\* govalidator.Struct(configs): the failed required-field rules of the
\* manifest as a whole, the tasks ranged over in the given order
StructErrors(cfg, order) ==
    Cat([i \in DOMAIN order |->
            IF cfg.Tasks[order[i]].Steps = <<>>
            THEN <<[tag |-> "required", value |-> order[i]]>> ELSE <<>>])

\* a validator result: nil, an InvalidValidationError, or ValidationErrors
AsValErrs(list) ==
    IF list = <<>> THEN [kind |-> "nil", list |-> <<>>]
    ELSE [kind |-> "errors", list |-> list]

\* formatErrors: nothing for nil; an InvalidValidationError as it is; else
\* one message per validation error, with the prefix "task '<name>': "
\* unless taskName is the empty string
formatErrors(valErrs, taskName) ==
    IF valErrs.kind = "nil" THEN <<>>
    ELSE IF valErrs.kind = "invalid"
    THEN <<[prefixed |-> FALSE, task |-> <<>>, msg |-> [tag |-> "invalid", value |-> <<>>]]>>
    ELSE [i \in DOMAIN valErrs.list |->
             IF taskName = <<>>
             THEN [prefixed |-> FALSE, task |-> <<>>, msg |-> valErrs.list[i]]
             ELSE [prefixed |-> TRUE, task |-> taskName, msg |-> valErrs.list[i]]]

\* lines 109-114: the steps of one task
TaskStepErrors(cfg, taskName) ==
    Cat([j \in DOMAIN cfg.Tasks[taskName].Steps |->
            formatErrors(AsValErrs(StepErrors(cfg, cfg.Tasks[taskName].Steps[j])), taskName)])

\* Configs.Validate, the maps ranged over in the orders given
Validate(cfg, structOrder, order) ==
    IF initValidator(customValidationTags) # "ok"
    THEN <<[prefixed |-> FALSE, task |-> <<>>, msg |-> [tag |-> "init", value |-> <<>>]]>>
    ELSE formatErrors(AsValErrs(StructErrors(cfg, structOrder)), <<>>)
         \o Cat([i \in DOMAIN order |-> TaskStepErrors(cfg, order[i])])

ValidateCall ==
    /\ errs.st = "none"
    /\ \E structOrder \in Orders(DOMAIN valIn.Tasks), order \in Orders(DOMAIN valIn.Tasks) :
           errs' = [st |-> "done", list |-> Validate(valIn, structOrder, order)]
    /\ UNCHANGED <<hostEnv, dotEnv, oeVars, dirVars, mntVars, valIn, loadVars>>

---------------------------------------------------------------------------
(* getDunnerTaskFile, loadDotEnv, ParseEnvs, GetConfigs *)

\* internal.DefaultDunnerTaskFileName, kept as one unit of text
DefaultDunnerTaskFileName == <<".dunner.yaml">>

\* filepath.Clean(string(os.PathSeparator))
RootDir == <<"/">>

RECURSIVE JoinComps(_)
\* the components of a path, each after a separator
JoinComps(comps) ==
    IF comps = <<>> THEN <<>> ELSE <<"/">> \o Head(comps) \o JoinComps(Tail(comps))

\* filepath.Join(dir, name) for a clean absolute dir
JoinDir(d, name) == IF d = RootDir THEN d \o name ELSE d \o <<"/">> \o name

\* the directory is kept: the search never moves up
ParentDirStuck(d) == d

\* filepath.Clean(dir + "/.."): the last component is dropped; the root is
\* its own parent
ParentDir(d) ==
    LET comps == FieldsFunc(d, "/")
        up    == IF comps = <<>> THEN <<>> ELSE SubSeq(comps, 1, Len(comps) - 1)
    IN  IF up = <<>> THEN RootDir ELSE JoinComps(up)

\* util.FileExists
FileExists(p) == p \in files

NotReturned == [st |-> "none", hasCfg |-> FALSE, cfg |-> EmptyConfigs, key |-> <<>>]

\* return nil, err
Failure(st, key) == [st |-> st, hasCfg |-> FALSE, cfg |-> EmptyConfigs, key |-> key]

\* lines 296-302 and the like: the loop over a list of assignments from
\* index i on, each replaced by what obtainEnv returns
RECURSIVE ParseEnvList(_, _)

\* lines 297-301: r is what obtainEnv returned for envs[i]
EnvListStep(envs, i, r) ==
    IF r.st # "ok" THEN [envs |-> envs, st |-> r.st, key |-> r.key]
    ELSE ParseEnvList([envs EXCEPT ![i] = r.out], i + 1)

ParseEnvList(envs, i) ==
    IF i > Len(envs) THEN [envs |-> envs, st |-> "ok", key |-> <<>>]
    ELSE EnvListStep(envs, i, obtainEnv(envs[i]))

\* lines 314-324: the steps of a task from index j on
RECURSIVE ParseStepsEnvs(_, _)

\* lines 315-323: r is what the loop over the assignments of step j left
StepEnvsDone(steps, j, r) ==
    LET upd == [steps EXCEPT ![j].Envs = r.envs]
    IN  IF r.st # "ok" THEN [steps |-> upd, st |-> r.st, key |-> r.key]
        ELSE ParseStepsEnvs(upd, j + 1)

ParseStepsEnvs(steps, j) ==
    IF j > Len(steps) THEN [steps |-> steps, st |-> "ok", key |-> <<>>]
    ELSE StepEnvsDone(steps, j, ParseEnvList(steps[j].Envs, 1))

\* lines 303-325: the tasks, ranged over in the given order from index i on
RECURSIVE ParseTasksEnvs(_, _, _)

\* lines 314-325: ss is what the loop over the steps of task order[i] left
TaskStepsDone(tasks, order, i, ss) ==
    LET t2 == [tasks EXCEPT ![order[i]].Steps = ss.steps]
    IN  IF ss.st # "ok" THEN [tasks |-> t2, st |-> ss.st, key |-> ss.key]
        ELSE ParseTasksEnvs(t2, order, i + 1)

\* lines 304-313: e is what the loop over the assignments of task order[i]
\* left
TaskEnvsDone(tasks, order, i, e) ==
    LET t1 == [tasks EXCEPT ![order[i]].Envs = e.envs]
    IN  IF e.st # "ok" THEN [tasks |-> t1, st |-> e.st, key |-> e.key]
        ELSE TaskStepsDone(t1, order, i, ParseStepsEnvs(tasks[order[i]].Steps, 1))

ParseTasksEnvs(tasks, order, i) ==
    IF i > Len(order) THEN [tasks |-> tasks, st |-> "ok", key |-> <<>>]
    ELSE TaskEnvsDone(tasks, order, i, ParseEnvList(tasks[order[i]].Envs, 1))

\* lines 303-327: t is what the loop over the tasks left
AllTasksDone(cfg, t) ==
    [cfg |-> [cfg EXCEPT !.Tasks = t.tasks], st |-> t.st, key |-> t.key]

\* lines 296-302: g is what the loop over the assignments of the manifest
\* left
GlobalEnvsDone(cfg, order, g) ==
    LET c1 == [cfg EXCEPT !.Envs = g.envs]
    IN  IF g.st # "ok" THEN [cfg |-> c1, st |-> g.st, key |-> g.key]
        ELSE AllTasksDone(c1, ParseTasksEnvs(cfg.Tasks, order, 1))

\* ParseEnvs: the manifest as it is left (changed in place), and the error
ParseEnvs(cfg, order) == GlobalEnvsDone(cfg, order, ParseEnvList(cfg.Envs, 1))

\* GetConfigs calls getDunnerTaskFile (lines 254-262): another name than the
\* default is returned as it is; else the search starts at os.Getwd()
GetTaskFileEnter ==
    /\ pc = "start"
    /\ trace' = Append(trace, "discover")
    /\ IF filename # DefaultDunnerTaskFileName
       THEN /\ taskFile' = filename /\ pc' = "read"
            /\ UNCHANGED <<dir, result>>
       ELSE IF ~wd.ok
       THEN /\ result' = Failure("getwd_error", <<>>) /\ pc' = "done"
            /\ UNCHANGED <<dir, taskFile>>
       ELSE /\ dir' = wd.path /\ pc' = "search"
            /\ UNCHANGED <<taskFile, result>>
    /\ UNCHANGED <<hostEnv, dotEnv, oeVars, dirVars, mntVars, valVars,
                   filename, wd, files, manifest, dotenvFile, visited, configs>>

\* one iteration of the loop of getDunnerTaskFile (lines 263-276)
SearchStep ==
    /\ pc = "search"
    /\ visited' = Append(visited, dir)
    /\ LET candidate == JoinDir(dir, DefaultDunnerTaskFileName)
       IN  IF FileExists(candidate)
           THEN /\ taskFile' = candidate /\ pc' = "read"
                /\ UNCHANGED <<dir, result>>
           ELSE IF dir = RootDir \/ dir = <<>>
           THEN /\ result' = Failure("not_found_task_file", <<>>) /\ pc' = "done"
                /\ UNCHANGED <<dir, taskFile>>
           ELSE /\ dir' = ParentDir(dir)
                /\ IF dir' = dir
                   THEN result' = Failure("not_found_task_file", <<>>) /\ pc' = "done"
                   ELSE UNCHANGED <<result, pc>>
                /\ UNCHANGED taskFile
    /\ UNCHANGED <<hostEnv, dotEnv, oeVars, dirVars, mntVars, valVars,
                   filename, wd, files, manifest, dotenvFile, trace, configs>>

\* ioutil.ReadFile(taskFile): it fails when the file is not there, and may
\* fail when it is
ReadFileStage ==
    /\ pc = "read"
    /\ trace' = Append(trace, "read")
    /\ \E ioOK \in BOOLEAN :
           IF ioOK /\ FileExists(taskFile)
           THEN pc' = "decode" /\ UNCHANGED result
           ELSE result' = Failure("read_error", <<>>) /\ pc' = "done"
    /\ UNCHANGED <<hostEnv, dotEnv, oeVars, dirVars, mntVars, valVars,
                   filename, wd, files, manifest, dotenvFile, dir, visited, taskFile, configs>>

\* yaml.Unmarshal(fileContents, &configs)
UnmarshalStage ==
    /\ pc = "decode"
    /\ trace' = Append(trace, "decode")
    /\ IF manifest.ok
       THEN configs' = manifest.cfg /\ pc' = "dotenv" /\ UNCHANGED result
       ELSE result' = Failure("decode_error", <<>>) /\ pc' = "done" /\ UNCHANGED configs
    /\ UNCHANGED <<hostEnv, dotEnv, oeVars, dirVars, mntVars, valVars,
                   filename, wd, files, manifest, dotenvFile, dir, visited, taskFile>>

\* loadDotEnv: a file that cannot be read leaves an empty map and is only
\* logged
LoadDotEnvStage ==
    /\ pc = "dotenv"
    /\ trace' = Append(trace, "dotenv")
    /\ dotEnv' = IF dotenvFile.exists THEN dotenvFile.map ELSE NilMap
    /\ pc' = "parse"
    /\ UNCHANGED <<hostEnv, oeVars, dirVars, mntVars, valVars,
                   filename, wd, files, manifest, dotenvFile, dir, visited, taskFile,
                   configs, result>>

\* GetConfigsReturn handing back the manifest as far as it was resolved
GetConfigsReturnLenient(r) ==
    [st |-> r.st, hasCfg |-> TRUE, cfg |-> r.cfg, key |-> r.key]

\* lines 243-246: return nil, err when ParseEnvs failed, else &configs, nil
GetConfigsReturn(r) ==
    IF r.st # "ok" THEN Failure(r.st, r.key)
    ELSE [st |-> "ok", hasCfg |-> TRUE, cfg |-> r.cfg, key |-> <<>>]

\* lines 242-246: ParseEnvs(&configs), then the return
ParseEnvsStage ==
    /\ pc = "parse"
    /\ trace' = Append(trace, "parse")
    /\ \E order \in Orders(DOMAIN configs.Tasks) :
           \E r \in {ParseEnvs(configs, order)} :
               /\ configs' = r.cfg
               /\ result' = GetConfigsReturn(r)
    /\ pc' = "done"
    /\ UNCHANGED <<hostEnv, dotEnv, oeVars, dirVars, mntVars, valVars,
                   filename, wd, files, manifest, dotenvFile, dir, visited, taskFile>>

NextLoad ==
    \/ GetTaskFileEnter
    \/ SearchStep
    \/ ReadFileStage
    \/ UnmarshalStage
    \/ LoadDotEnvStage
    \/ ParseEnvsStage

---------------------------------------------------------------------------
(* Values of the variables of the calls a specification does not make *)

IdleEnvCall == envVar = <<>> /\ envRes = IdleRes

IdleDir ==
    /\ dirIn = <<>> /\ dirRes = IdleRes
    /\ step = EmptyStep /\ stepIn = EmptyStep /\ stepRes = IdleRes

IdleMnt ==
    /\ mounts = <<>> /\ fsDirs = {} /\ mountOK = [st |-> "idle", rules |-> <<>>]
    /\ ExtMounts = <<>> /\ decodeRes = "idle"

IdleVal == valIn = EmptyConfigs /\ errs = [st |-> "idle", list |-> <<>>]

IdleLoad ==
    /\ filename = <<>> /\ wd = [ok |-> TRUE, path |-> <<>>] /\ files = {}
    /\ manifest = [ok |-> FALSE, cfg |-> EmptyConfigs]
    /\ dotenvFile = [exists |-> FALSE, map |-> NilMap]
    /\ dir = <<>> /\ visited = <<>> /\ taskFile = <<>>
    /\ pc = "idle" /\ trace = <<>> /\ configs = EmptyConfigs
    /\ result = NotReturned

---------------------------------------------------------------------------
(* Specification of obtainEnv *)

MaxEnvTokens == 4

NameA == <<"A">>
NameB == <<"B">>

\* the pieces assignment strings are made of
EnvTokens == {<<"N">>, <<EQ>>, <<BT>>, <<"A">>, <<"x">>, Directive(NameA)}

EnvStrings == TokenStrings(EnvTokens, MaxEnvTokens)

\* values a source may give a name: empty, one set by the host, one set by
\* the dotenv file
EnvValues == {<<>>, <<"h">>, <<"d">>}

InitEnv ==
    /\ hostEnv \in Maps({NameA}, EnvValues)
    /\ dotEnv \in Maps({NameA}, EnvValues)
    /\ envVar \in EnvStrings
    /\ envRes = NoRes
    /\ IdleDir /\ IdleMnt /\ IdleVal /\ IdleLoad

NextEnv == ObtainEnvCall

SpecEnv == InitEnv /\ [][NextEnv]_vars

\* v is exactly one directive: a backtick, a dollar, a non-empty name
\* without backticks, a backtick
IsDirective(v) ==
    /\ Len(v) >= 4 /\ v[1] = BT /\ v[2] = DL /\ Last(v) = BT
    /\ \A i \in 3..(Len(v) - 1) : v[i] # BT

DirectiveName(v) == SubSeq(v, 3, Len(v) - 1)

IsDefined(name) == name \in DOMAIN dotEnv \/ name \in DOMAIN hostEnv

\* the value the two sources give a defined name, dotenv first
SourceValue(name) ==
    IF name \in DOMAIN dotEnv THEN dotEnv[name] ELSE hostEnv[name]

\* C1: for NAME=VALUE with VALUE exactly one directive of FOO, obtainEnv
\* succeeds iff FOO is defined in the dotenv map or the host environment
\* (whatever the value, the empty string included), and then returns
\* NAME=<value>, the dotenv value when the dotenv map defines FOO and the
\* host value otherwise.
C1_SucceedsIffDefined ==
    LET str == Split(envVar, EQ)
    IN  (envRes.st \notin {"none", "idle"} /\ Len(str) = 2 /\ IsDirective(str[2])) =>
            LET foo == DirectiveName(str[2])
            IN  /\ (envRes.st = "ok") <=> IsDefined(foo)
                /\ envRes.st = "ok" =>
                       envRes.out = str[1] \o <<EQ>> \o SourceValue(foo)

\* C9: with exactly one '=', obtainEnv substitutes only when the whole
\* VALUE is a single directive of NAME, and then looks up exactly NAME;
\* every other VALUE leaves the assignment unchanged; an assignment without
\* exactly one '=' is rejected as an invalid format.
C9_WholeValueOnly ==
    LET str == Split(envVar, EQ)
    IN  envRes.st \notin {"none", "idle"} =>
            IF Count(envVar, EQ) # 1
            THEN envRes.st = "invalid_format"
            ELSE IF IsDirective(str[2])
                 THEN /\ envRes.st \in {"ok", "not_found"}
                      /\ envRes.key = DirectiveName(str[2])
                      /\ envRes.st = "ok" =>
                             envRes.out = str[1] \o <<EQ>> \o LookupVal(envRes.key)
                 ELSE envRes.st = "ok" /\ envRes.out = envVar

---------------------------------------------------------------------------
(* Specification of lookupDirectory and ParseStepEnv *)

MaxDirTokens == 3
MaxMounts == 2

DirTokens == {<<BT>>, <<DL>>, <<"B">>, <<"/">>, Directive(NameA), Directive(NameB)}

DirStrings == TokenStrings(DirTokens, MaxDirTokens)

\* values of the names used in directory strings; a value may itself look
\* like a directive
DirValues == {<<>>, <<"x">>, Directive(NameB)}

FieldStrings == {<<"/">>, <<"/">> \o Directive(NameA), Directive(NameB) \o <<"/">>}

SeqsUpTo(S, n) == UNION {[1..k -> S] : k \in 0..n}

Steps ==
    {[EmptyStep EXCEPT !.Dir = d, !.Mounts = m, !.User = u] :
        d \in FieldStrings, m \in SeqsUpTo(FieldStrings, MaxMounts), u \in FieldStrings}

InitDir ==
    /\ hostEnv \in Maps({NameA, NameB}, DirValues)
    /\ dotEnv \in Maps({NameA, NameB}, DirValues)
    /\ \/ /\ dirIn \in DirStrings /\ dirRes = NoRes
          /\ step = EmptyStep /\ stepIn = EmptyStep /\ stepRes = IdleRes
       \/ /\ dirIn = <<>> /\ dirRes = IdleRes
          /\ step \in Steps /\ stepIn = step /\ stepRes = NoRes
    /\ IdleEnvCall /\ IdleMnt /\ IdleVal /\ IdleLoad

NextDir == LookupDirectoryCall \/ ParseStepEnvCall

SpecDir == InitDir /\ [][NextDir]_vars

\* s with each directive occurrence replaced, in one pass from position i,
\* by the value of its own name; the text of a value is not scanned again
RECURSIVE Interpolated(_, _)
Interpolated(s, i) ==
    IF i > Len(s) THEN <<>>
    ELSE LET j == IF i + 3 <= Len(s) /\ s[i] = BT /\ s[i + 1] = DL
                  THEN IndexFrom(s, BT, i + 2) ELSE 0
         IN  IF j >= i + 3
             THEN LookupVal(SubSeq(s, i + 2, j - 1)) \o Interpolated(s, j + 1)
             ELSE <<s[i]>> \o Interpolated(s, i + 1)

Range(f) == {f[i] : i \in DOMAIN f}

\* C2: when every directive name of the input has a value, lookupDirectory
\* returns the input with every directive occurrence replaced by the value
\* of its own name and every other character untouched (text contributed
\* by a substituted value is not rewritten); no directive, no change.
C2_EveryOccurrenceReplaced ==
    (/\ dirRes.st \notin {"none", "idle"}
     /\ \A n \in Range(FindDirectives(dirIn, 1)) : LookupVal(n) # <<>>) =>
        /\ dirRes.st = "ok"
        /\ dirRes.out = Interpolated(dirIn, 1)

\* the fields ParseStepEnv works on, in its order: Dir, each mount, User
StepFields(s) == <<s.Dir>> \o s.Mounts \o <<s.User>>

HasUndefinedName(s) ==
    \E n \in Range(FindDirectives(s, 1)) : ~IsDefined(n)

\* C3: a string with a directive name defined nowhere makes lookupDirectory
\* fail, naming a directive name of the string that has no value, and the
\* string handed back is the input itself, never a partly substituted one;
\* ParseStepEnv fails when a field has such a name, and leaves the first
\* failing field and every field after it as they were, the fields before
\* it substituted.
C3_NoPartialSubstitution ==
    /\ (dirRes.st \notin {"none", "idle"} /\ HasUndefinedName(dirIn)) =>
           /\ dirRes.st = "not_found"
           /\ dirRes.out = dirIn
           /\ dirRes.key \in Range(FindDirectives(dirIn, 1))
           /\ LookupVal(dirRes.key) = <<>>
    /\ (dirRes.st = "not_found") => dirRes.out = dirIn
    /\ (stepRes.st \notin {"none", "idle"}) =>
           LET fin  == StepFields(stepIn)
               fout == StepFields(step)
               bad  == {k \in DOMAIN fin : lookupDirectory(fin[k]).st # "ok"}
           IN  /\ Len(fout) = Len(fin)
               /\ (\E k \in DOMAIN fin : HasUndefinedName(fin[k])) =>
                      stepRes.st = "not_found"
               /\ (stepRes.st = "not_found") <=> (bad # {})
               /\ \A k \in DOMAIN fin :
                      IF \E b \in bad : b <= k
                      THEN fout[k] = fin[k]
                      ELSE fout[k] = lookupDirectory(fin[k]).out
               /\ (stepRes.st = "not_found") =>
                      LET first == CHOOSE b \in bad : \A c \in bad : b <= c
                      IN  /\ stepRes.key \in Range(FindDirectives(fin[first], 1))
                          /\ LookupVal(stepRes.key) = <<>>

\* a mount fails after Dir was substituted: Dir holds its value, the
\* failing mount is as it was
C3_Witness ==
    /\ stepRes.st = "not_found"
    /\ step.Dir # stepIn.Dir
    /\ Len(step.Mounts) = 2
    /\ HasUndefinedName(step.Mounts[2])
    /\ ~HasUndefinedName(step.Mounts[1])
    /\ step.Mounts[1] # stepIn.Mounts[1]
    /\ step.Mounts[2] = stepIn.Mounts[2]

---------------------------------------------------------------------------
(* Specification of the mount rules and DecodeMount *)

MaxSegs == 4

PathSegs == {<<>>, <<"a">>, <<"~", "a">>}
ModeSegs == {<<>>, <<"r">>, <<"w">>, <<"w", "r">>, <<"r", "w">>, <<"x">>}
QuoteMarks == {<<>>, <<"'">>, <<"\"">>}

RECURSIVE JoinSegs(_)
JoinSegs(segs) ==
    IF Len(segs) = 1 THEN segs[1]
    ELSE segs[1] \o <<CL>> \o JoinSegs(Tail(segs))

\* source and target segments, then mode segments, joined by colons
SegLists ==
    UNION {{f \in [1..k -> PathSegs \cup ModeSegs] :
               \A i \in 1..k : IF i <= 2 THEN f[i] \in PathSegs ELSE f[i] \in ModeSegs} :
           k \in 1..MaxSegs}

MountStrings ==
    {ql \o JoinSegs(segs) \o qr : ql \in QuoteMarks, qr \in QuoteMarks, segs \in SegLists}

SomeMounts == {<<"a", CL, "a">>, <<"a", CL, "a", CL, "w">>,
               <<"~", "a", CL, "a", CL, "r", "w">>}

InitMount ==
    /\ hostEnv = NilMap /\ dotEnv = NilMap
    /\ \/ \E m \in MountStrings : mounts = <<m>>
       \/ mounts \in SeqsUpTo(SomeMounts, MaxMounts)
    /\ fsDirs \in {{}, {<<"a">>}}
    /\ mountOK = [st |-> "none", rules |-> <<>>]
    /\ ExtMounts = <<>>
    /\ decodeRes = "none"
    /\ IdleEnvCall /\ IdleDir /\ IdleVal /\ IdleLoad

NextMount == ValidateMountsCall \/ DecodeMountCall

SpecMount == InitMount /\ [][NextMount]_vars

\* the segments of a mount string as the rule sees them: the maximal
\* non-empty runs of characters other than ':', as <<first, last>> positions
SegmentRuns(s) ==
    {r \in (1..Len(s)) \X (1..Len(s)) :
        /\ r[1] <= r[2]
        /\ \A i \in r[1]..r[2] : s[i] # CL
        /\ (r[1] = 1 \/ s[r[1] - 1] = CL)
        /\ (r[2] = Len(s) \/ s[r[2] + 1] = CL)}

LastRun(s) == CHOOSE r \in SegmentRuns(s) : \A q \in SegmentRuns(s) : q[1] <= r[1]

ValidModes == {<<"r">>, <<"w", "r">>, <<"r", "w">>, <<"w">>}

AllAccepted ==
    /\ mountOK.st = "done"
    /\ \A i \in DOMAIN mounts : mountOK.rules[i].mountdir /\ mountOK.rules[i].parsedir

\* the mounts are written without quote characters
Unquoted == \A i \in DOMAIN mounts : \A k \in DOMAIN mounts[i] : mounts[i][k] \notin {"'", "\""}

\* the segments of the mount string as written, quotes stripped
WrittenSegs(m) == Split(Trim(Trim(m, "'"), "\""), CL)

\* C5: DecodeMount appends exactly one descriptor per input mount string, in
\* input order, read-write exactly when the string has a third segment equal
\* to w or wr, read-only otherwise (stated for validated, unquoted mounts on
\* which DecodeMount returned without error).
C5_OneDescriptorPerMount ==
    (AllAccepted /\ Unquoted /\ decodeRes = "ok") =>
        /\ Len(ExtMounts) = Len(mounts)
        /\ \A i \in DOMAIN mounts :
               LET segs == WrittenSegs(mounts[i])
               IN  /\ ExtMounts[i].Target = segs[2]
                   /\ ExtMounts[i].ReadOnly =
                          ~(Len(segs) >= 3 /\ segs[3] \in {<<"w">>, <<"w", "r">>})

\* C10: for every mount string the mountdir rule accepts, DecodeMount does
\* not crash and its descriptor has the source and target of the first and
\* second segments the validator saw and the mode of the third (stated for
\* unquoted mounts that pass both rules, and runs without an I/O error).
C10_ValidatorDecoderAgree ==
    (AllAccepted /\ Unquoted /\ decodeRes \notin {"none", "idle", "abs_error"}) =>
        /\ decodeRes = "ok"
        /\ Len(ExtMounts) = Len(mounts)
        /\ \A i \in DOMAIN mounts :
               LET f    == FieldsFunc(mounts[i], CL)
                   mode == IF Len(f) = 3 THEN f[3] ELSE defaultPermissionMode
               IN  /\ ExtMounts[i].Source = Abs(joinPathRelToHome(f[1]), TRUE).path
                   /\ ExtMounts[i].Target = f[2]
                   /\ ExtMounts[i].ReadOnly = (mode \notin {<<"w">>, <<"w", "r">>})

---------------------------------------------------------------------------
(* Specification of Validate *)

MaxTasks == 2
MaxSteps == 2

\* task names; a YAML key may be the empty string
TaskNames == {<<>>, <<"b">>, <<"c">>}

ValSteps ==
    {[EmptyStep EXCEPT !.Image = <<"n">>, !.Mounts = <<<<"a", CL, "a">>>>],
     [EmptyStep EXCEPT !.Image = <<"n">>, !.Mounts = <<<<"a", CL, "a", CL, "x">>>>],
     EmptyStep,
     [EmptyStep EXCEPT !.Follow = <<" ", "b">>],
     [EmptyStep EXCEPT !.Follow = <<"z">>]}

ValTasks == {[Envs |-> <<>>, Steps |-> st] : st \in SeqsUpTo(ValSteps, MaxSteps)}

ValConfigs ==
    {[Envs |-> <<>>, Tasks |-> t] :
        t \in UNION {[D -> ValTasks] :
                        D \in {E \in SUBSET TaskNames : Cardinality(E) \in 1..MaxTasks}}}

InitVal ==
    /\ hostEnv = NilMap /\ dotEnv = NilMap
    /\ valIn \in ValConfigs
    /\ errs = [st |-> "none", list |-> <<>>]
    /\ mounts = <<>> /\ fsDirs = {<<"a">>} /\ mountOK = [st |-> "idle", rules |-> <<>>]
    /\ ExtMounts = <<>> /\ decodeRes = "idle"
    /\ IdleEnvCall /\ IdleDir /\ IdleLoad

NextVal == ValidateCall

SpecVal == InitVal /\ [][NextVal]_vars

\* what the claim expects of a task: every error of each of its steps, each
\* prefixed with the task's name
PrefixedStepErrors(cfg, taskName) ==
    Cat([j \in DOMAIN cfg.Tasks[taskName].Steps |->
            LET es == StepErrors(cfg, cfg.Tasks[taskName].Steps[j])
            IN  [i \in DOMAIN es |-> [prefixed |-> TRUE, task |-> taskName, msg |-> es[i]]]])

UnprefixedStructErrors(cfg, order) ==
    LET es == StructErrors(cfg, order)
    IN  [i \in DOMAIN es |-> [prefixed |-> FALSE, task |-> <<>>, msg |-> es[i]]]

\* C7: Validate does not short-circuit: the list it returns is the errors
\* of the structural pass, without prefix, followed by the errors of every
\* step of every task, each prefixed with task '<name>': for its own task.
C7_AllErrorsCollected ==
    errs.st = "done" =>
        \E structOrder \in Orders(DOMAIN valIn.Tasks), order \in Orders(DOMAIN valIn.Tasks) :
            errs.list = UnprefixedStructErrors(valIn, structOrder)
                        \o Cat([i \in DOMAIN order |-> PrefixedStepErrors(valIn, order[i])])

---------------------------------------------------------------------------
(* Specification of the task-file search *)

MaxDepth == 2
MaxFiles == 2

DirNames == {<<"a">>, <<"b">>}

\* the clean absolute directories of depth at most MaxDepth
Dirs == {IF c = <<>> THEN RootDir ELSE JoinComps(c) : c \in SeqsUpTo(DirNames, MaxDepth)}

\* a task file named on the command line
CustomFile == <<"t">>

FileChoices ==
    {F \in SUBSET ({JoinDir(d, DefaultDunnerTaskFileName) : d \in Dirs} \cup {CustomFile}) :
        Cardinality(F) <= MaxFiles}

AssignLit == <<"N", EQ, "v">>
AssignA   == <<"N", EQ>> \o Directive(NameA)
AssignB   == <<"M", EQ>> \o Directive(NameB)

StartOfGetConfigs ==
    /\ dir = <<>> /\ visited = <<>> /\ taskFile = <<>>
    /\ pc = "start" /\ trace = <<>> /\ configs = EmptyConfigs
    /\ result = NotReturned
    /\ dotEnv = NilMap
    /\ IdleEnvCall /\ IdleDir /\ IdleMnt /\ IdleVal

InitLocate ==
    /\ filename \in {DefaultDunnerTaskFileName, CustomFile}
    /\ wd \in {[ok |-> TRUE, path |-> d] : d \in Dirs} \cup {[ok |-> FALSE, path |-> <<>>]}
    /\ files \in FileChoices
    /\ manifest \in {[ok |-> FALSE, cfg |-> EmptyConfigs],
                     [ok |-> TRUE, cfg |-> [EmptyConfigs EXCEPT !.Envs = <<AssignA>>]]}
    /\ dotenvFile \in {[exists |-> FALSE, map |-> NilMap],
                       [exists |-> TRUE, map |-> (NameA :> <<"d">>)]}
    /\ hostEnv = NilMap
    /\ StartOfGetConfigs

SpecLocate == InitLocate /\ [][NextLoad]_vars

\* the directory, its parent, its grandparent, ..., the root
AncestorChain(path) ==
    LET comps == FieldsFunc(path, "/")
        n     == Len(comps)
    IN  [k \in 1..(n + 1) |->
            IF k = n + 1 THEN RootDir ELSE JoinComps(SubSeq(comps, 1, n - k + 1))]

HoldsTaskFile(d) == FileExists(JoinDir(d, DefaultDunnerTaskFileName))

SearchOver == pc \notin {"start", "search"}

C6_Safe ==
    /\ (filename = DefaultDunnerTaskFileName /\ wd.ok) =>
           LET chain == AncestorChain(wd.path)
           IN  /\ Len(visited) <= Len(chain)
               /\ visited = SubSeq(chain, 1, Len(visited))
               /\ \A i, j \in DOMAIN visited : i # j => visited[i] # visited[j]
               /\ \A i \in 1..(Len(visited) - 1) : ~HoldsTaskFile(visited[i])
               /\ pc = "search" => dir = chain[Len(visited) + 1]
               /\ (SearchOver /\ result.st # "not_found_task_file") =>
                      /\ visited # <<>>
                      /\ HoldsTaskFile(Last(visited))
                      /\ taskFile = JoinDir(Last(visited), DefaultDunnerTaskFileName)
               /\ (result.st = "not_found_task_file") =>
                      /\ visited = chain
                      /\ \A i \in DOMAIN chain : ~HoldsTaskFile(chain[i])
    /\ (result.st = "not_found_task_file") => (filename = DefaultDunnerTaskFileName /\ wd.ok)

\* one iteration records the directory it checked and, when the loop goes
\* on, leaves a strictly shorter dir
SearchMovesUp ==
    pc = "search" =>
        /\ visited' = Append(visited, dir)
        /\ pc' = "search" => Len(dir') < Len(dir)

\* C6: with the default name, getDunnerTaskFile checks the working
\* directory and then each parent in order, returns the path in the nearest
\* directory that holds the file, and else fails with 'failed to find' once
\* the root has been checked; it never checks a directory twice, and the
\* loop ends from every starting directory (an iteration is always possible
\* and each one that goes on shortens dir).
C6_NearestTaskFile ==
    /\ [](C6_Safe /\ (pc = "search" => ENABLED SearchStep))
    /\ [][SearchMovesUp]_vars

\* the file is found in the root after the working directory and its
\* parent were checked
C6_Witness ==
    /\ SearchOver
    /\ Len(visited) = 3
    /\ visited[1] = wd.path
    /\ taskFile = JoinDir(RootDir, DefaultDunnerTaskFileName)
    /\ Cardinality(files) = 1

---------------------------------------------------------------------------
(* Specification of GetConfigs *)

LoadEnvLists == {<<>>, <<AssignLit>>, <<AssignA>>, <<AssignA, AssignB>>, <<AssignLit, AssignA>>}

LoadTasks ==
    {[Envs |-> e, Steps |-> st] :
        e \in {<<>>, <<AssignA>>},
        st \in {<<>>, <<[EmptyStep EXCEPT !.Envs = <<AssignA>>]>>,
                <<[EmptyStep EXCEPT !.Envs = <<AssignLit>>],
                  [EmptyStep EXCEPT !.Envs = <<AssignB>>]>>}}

LoadConfigs ==
    {[Envs |-> e, Tasks |-> t] :
        e \in LoadEnvLists,
        t \in UNION {[D -> LoadTasks] : D \in {{<<"b">>}, {<<"b">>, <<"c">>}}}}

InitLoad ==
    /\ filename \in {DefaultDunnerTaskFileName, CustomFile}
    /\ wd \in {[ok |-> TRUE, path |-> <<"/", "a">>], [ok |-> FALSE, path |-> <<>>]}
    /\ files \in SUBSET {JoinDir(RootDir, DefaultDunnerTaskFileName), CustomFile}
    /\ manifest \in {[ok |-> FALSE, cfg |-> EmptyConfigs]}
                    \cup {[ok |-> TRUE, cfg |-> c] : c \in LoadConfigs}
    /\ dotenvFile \in {[exists |-> FALSE, map |-> NilMap]}
                      \cup {[exists |-> TRUE, map |-> m] : m \in Maps({NameA}, {<<>>, <<"d">>})}
    /\ hostEnv \in Maps({NameA}, {<<"h">>})
    /\ StartOfGetConfigs

SpecLoad == InitLoad /\ [][NextLoad]_vars

Stages == <<"discover", "read", "decode", "dotenv", "parse">>

\* every assignment of the manifest read from the file
AllAssignments(cfg) ==
    Range(cfg.Envs)
    \cup UNION {Range(cfg.Tasks[k].Envs) : k \in DOMAIN cfg.Tasks}
    \cup UNION {UNION {Range(cfg.Tasks[k].Steps[j].Envs) : j \in DOMAIN cfg.Tasks[k].Steps} :
                   k \in DOMAIN cfg.Tasks}

Resolved(envs) == [i \in DOMAIN envs |-> obtainEnv(envs[i]).out]

\* the manifest with every assignment resolved
FullyResolved(cfg) ==
    [Envs  |-> Resolved(cfg.Envs),
     Tasks |-> [k \in DOMAIN cfg.Tasks |->
                   [Envs  |-> Resolved(cfg.Tasks[k].Envs),
                    Steps |-> [j \in DOMAIN cfg.Tasks[k].Steps |->
                                  [cfg.Tasks[k].Steps[j] EXCEPT
                                      !.Envs = Resolved(cfg.Tasks[k].Steps[j].Envs)]]]]]

\* C8: GetConfigs runs discovery, read, decode, dotenv load and environment
\* resolution in that order and stops at the first failing stage: a
\* discovery failure is returned before any read or parse, a missing dotenv
\* file is not a failure, and on any failure the caller gets an error and no
\* Configs, never a partly resolved manifest.
C8_StagesInOrder ==
    /\ Len(trace) <= Len(Stages) /\ trace = SubSeq(Stages, 1, Len(trace))
    /\ (pc = "done") <=> (result.st # "none")
    /\ result.st \in {"getwd_error", "not_found_task_file"} => trace = SubSeq(Stages, 1, 1)
    /\ result.st = "read_error" => trace = SubSeq(Stages, 1, 2)
    /\ result.st = "decode_error" => trace = SubSeq(Stages, 1, 3)
    /\ result.st \in {"not_found", "invalid_format", "ok"} => trace = Stages
    /\ (pc = "done" /\ Len(trace) >= 4) => trace = Stages
    /\ (Len(trace) >= 4 /\ ~dotenvFile.exists) => dotEnv = NilMap
    /\ result.st \notin {"none", "ok"} => (~result.hasCfg /\ result.cfg = EmptyConfigs)
    /\ (trace = Stages) =>
           /\ (result.st = "ok") <=>
                  (\A a \in AllAssignments(manifest.cfg) : obtainEnv(a).st = "ok")
           /\ result.st = "ok" =>
                  (result.hasCfg /\ result.cfg = FullyResolved(manifest.cfg))

\* the dotenv file is missing, the first assignment was resolved from the
\* host and the second could not be: the caller gets the error alone
C8_Witness ==
    /\ pc = "done"
    /\ ~dotenvFile.exists
    /\ result.st = "not_found"
    /\ result.key = NameB
    /\ configs # manifest.cfg
    /\ ~result.hasCfg

===========================================================================
